---- MODULE Spec2Model ----
(***************************************************************************)
(* Model of src/src/ipcc.rs: the driver of the STM32WB inter-processor     *)
(* communication controller (IPCC).                                        *)
(*                                                                         *)
(* The two cores are two sequential processes.  `Core` is documented as    *)
(* "the core that's performing the requested operation" (ipcc.rs:24), so   *)
(* core c calls the operations with core = c.  The registers are the ones  *)
(* the code names: C{c}TOC{c'}SR (status flags CHnF), C{c}SCR (CHnS set    *)
(* bits, CHnC clear bits) and C{c}MR (CHnFM, CHnOM masks).  The effect of  *)
(* a write to SCR is the one the comments of the source quote from the     *)
(* reference manual: the SENDING processor sets CHnF with CHnS, the        *)
(* RECEIVING processor clears CHnF with CHnC (ipcc.rs:250-253, 81-83,      *)
(* 96-98, 166-168).  So C{c}SCR.CHnS sets C{c}TOC{c'}SR.CHnF and           *)
(* C{c}SCR.CHnC clears C{c'}TOC{c}SR.CHnF.                                 *)
(***************************************************************************)
EXTENDS Integers, FiniteSets, Sequences, TLC

\* ---------------------------------------------------------------- bounds
NumChannels == 2      \* channels modelled (IpccChannel has six)
MaxPayload == 2       \* distinct payload values
MaxCalls == 3         \* driver calls started in one behaviour of Spec
MaxHdCalls == 4       \* driver calls started in one behaviour of HalfDuplexSpec

\* ------------------------------------------------------- program constants
Free == 0             \* CHnF = 0: the channel is free
Occupied == 1         \* CHnF = 1: the channel is occupied
NoData == 0           \* content of the data memory before any write

Core == {1, 2}
IpccChannel == 1..NumChannels
Payloads == 1..MaxPayload

Other(c) == 3 - c

VARIABLES
  sr,      \* sr[c][n]: CHnF of C{c}TOC{Other(c)}SR, Direction (c, n)
  fm,      \* fm[c][n]: CHnFM of C{c}MR, TRUE = masked
  om,      \* om[c][n]: CHnOM of C{c}MR, TRUE = masked
  mem,     \* mem[c][n]: data posted by core c on channel n
  pc,      \* pc[c]: position of core c in the call it is running
  arg,     \* arg[c]: channel argument of the call core c is running
  done,    \* the call that returned in the step just taken, and its result
  calls,   \* number of driver calls started so far
  budget,  \* number of driver calls the behaviour may start
  hist     \* hist[c][n]: history of Direction (c, n), for the temporal claims

vars == <<sr, fm, om, mem, pc, arg, done, calls, budget, hist>>

NoCall == [core |-> 0, op |-> "none", ch |-> 0, data |-> NoData, saw |-> "na", ret |-> "none"]

\* hist[c][n].sets: set-occupied steps send_half_duplex(c, n) has taken;
\* .resps: returns of send_response_half_duplex(c, n);
\* .phase: 1 after send_half_duplex(c, n) has returned, 2 once a
\* send_response_half_duplex(Other(c), n) of the peer has returned after it;
\* .irq: on-free notifications raised to core c for channel n.
NoHist == [sets |-> 0, resps |-> 0, phase |-> 0, irq |-> 0]

\* Mutant of Start: the mask registers come up with every interrupt unmasked.
Start_unmasked(b) ==
  /\ sr = [c \in Core |-> [n \in IpccChannel |-> Free]]
  /\ fm = [c \in Core |-> [n \in IpccChannel |-> FALSE]]
  /\ om = [c \in Core |-> [n \in IpccChannel |-> FALSE]]
  /\ mem = [c \in Core |-> [n \in IpccChannel |-> NoData]]
  /\ pc = [c \in Core |-> "idle"]
  /\ arg = [c \in Core |-> 0]
  /\ done = NoCall
  /\ calls = 0
  /\ budget = b
  /\ hist = [c \in Core |-> [n \in IpccChannel |-> NoHist]]

\* State right after Ipcc::new: the RCC reset of the peripheral leaves every
\* flag free and every interrupt masked.
Start(b) ==
  /\ sr = [c \in Core |-> [n \in IpccChannel |-> Free]]
  /\ fm = [c \in Core |-> [n \in IpccChannel |-> TRUE]]
  /\ om = [c \in Core |-> [n \in IpccChannel |-> TRUE]]
  /\ mem = [c \in Core |-> [n \in IpccChannel |-> NoData]]
  /\ pc = [c \in Core |-> "idle"]
  /\ arg = [c \in Core |-> 0]
  /\ done = NoCall
  /\ calls = 0
  /\ budget = b
  /\ hist = [c \in Core |-> [n \in IpccChannel |-> NoHist]]

Init == Start(MaxCalls)

\* ------------------------------------------------------ register effects
\* Mutant of SetS: the set bit of the next channel is written.
SetS_next_channel(s, c, n) == [s EXCEPT ![c][(n % NumChannels) + 1] = Occupied]

\* C{c}SCR.CHnS written 1: sets CHnF of C{c}TOC{Other(c)}SR.
SetS(s, c, n) == [s EXCEPT ![c][n] = Occupied]

\* Mutant of SetC: CHnC clearing the flag core c TRANSMITS on.
SetC_own_flag(s, c, n) == [s EXCEPT ![c][n] = Free]

\* C{c}SCR.CHnC written 1: clears CHnF of the channel core c RECEIVES on,
\* that is of C{Other(c)}TOC{c}SR.
SetC(s, c, n) == [s EXCEPT ![Other(c)][n] = Free]

\* Mutant of Unmask: the bit is cleared in the mask registers of both cores.
Unmask_both_cores(m, c, n) == [x \in Core |-> [m[x] EXCEPT ![n] = FALSE]]

\* The notification path of the flag store: at the moment a flag of channel n
\* goes from Occupied (in s) to Free (in t), an on-free notification is raised
\* to the core that owns the Direction as sender iff that core's on-free mask
\* of the channel is unmasked at that moment.
NotifyFree(h, s, t, n) ==
  [x \in Core |->
     [h[x] EXCEPT ![n].irq =
        IF s[x][n] = Occupied /\ t[x][n] = Free /\ fm[x][n] = FALSE
        THEN @ + 1 ELSE @]]

\* C{c}MR.CHnFM / CHnOM cleared: the interrupt is unmasked.
Unmask(m, c, n) == [m EXCEPT ![c][n] = FALSE]

\* Mutant of channel_is_free: the status register of the other core is read.
channel_is_free_peer_register(c, n) == sr[Other(c)][n] = Free

channel_is_free(c, n) == sr[c][n] = Free

Saw(c, n) == IF channel_is_free(c, n) THEN "free" ELSE "occupied"

BoolStr(b) == IF b THEN "true" ELSE "false"

CanCall(c) == pc[c] = "idle" /\ calls < budget

Called == calls' = calls + 1 /\ UNCHANGED budget

Return(c, op, n, d, s, r) ==
  done' = [core |-> c, op |-> op, ch |-> n, data |-> d, saw |-> s, ret |-> r]

\* ---------------------------------------------------------------- simplex
\* send_simplex takes no core: channel_is_free(channel) reads the flag of the
\* calling core's Direction.  The data is written when the flag reads Free;
\* the else branch is empty; no CHnS write follows; the call returns ().
\* Mutant of send_simplex: the data is written whatever the flag reads.
send_simplex_overwrite(c, n, d) ==
  /\ CanCall(c)
  /\ mem' = [mem EXCEPT ![c][n] = d]
  /\ Return(c, "send_simplex", n, d, Saw(c, n), "unit")
  /\ Called
  /\ UNCHANGED <<sr, fm, om, pc, arg, hist>>

send_simplex(c, n, d) ==
  /\ CanCall(c)
  /\ mem' = IF channel_is_free(c, n) THEN [mem EXCEPT ![c][n] = d] ELSE mem
  /\ Return(c, "send_simplex", n, d, Saw(c, n), "unit")
  /\ Called
  /\ UNCHANGED <<sr, fm, om, pc, arg, hist>>

\* Mutant of receive_simplex: the channel free mask is cleared instead.
receive_simplex_free_mask(c, n) ==
  /\ CanCall(c)
  /\ fm' = IF n = 1 THEN Unmask(fm, c, n) ELSE fm
  /\ Return(c, "receive_simplex", n, NoData, "na", "unit")
  /\ Called
  /\ UNCHANGED <<sr, om, mem, pc, arg, hist>>

\* receive_simplex clears CH1OM of the caller's mask register; its match has
\* an arm for IpccChannel::C1 only, so no other channel's mask is touched.
receive_simplex(c, n) ==
  /\ CanCall(c)
  /\ om' = IF n = 1 THEN Unmask(om, c, n) ELSE om
  /\ Return(c, "receive_simplex", n, NoData, "na", "unit")
  /\ Called
  /\ UNCHANGED <<sr, fm, mem, pc, arg, hist>>

\* ------------------------------------------------------------ half duplex
\* The two blocking calls, one action per statement; the peer core's steps
\* interleave with them.  A turn of a wait loop that does not leave the loop
\* changes nothing.  The data parameter is never used by either call.
send_half_duplex_call(c, n) ==
  /\ CanCall(c)
  /\ pc' = [pc EXCEPT ![c] = "hd_wait"]
  /\ arg' = [arg EXCEPT ![c] = n]
  /\ done' = NoCall
  /\ Called
  /\ UNCHANGED <<sr, fm, om, mem, hist>>

\* Mutant of send_half_duplex_wait: the loop gives up after one turn.
send_half_duplex_wait_once(c) ==
  /\ pc[c] = "hd_wait"
  /\ pc' = [pc EXCEPT ![c] = "hd_set"]
  /\ done' = NoCall
  /\ UNCHANGED <<sr, fm, om, mem, arg, calls, budget, hist>>

send_half_duplex_wait(c) ==
  /\ pc[c] = "hd_wait"
  /\ pc' = [pc EXCEPT ![c] = IF channel_is_free(c, arg[c]) THEN "hd_set" ELSE "hd_wait"]
  /\ done' = IF channel_is_free(c, arg[c]) THEN NoCall ELSE done
  /\ UNCHANGED <<sr, fm, om, mem, arg, calls, budget, hist>>

send_half_duplex_set(c) ==
  /\ pc[c] = "hd_set"
  /\ sr' = SetS(sr, c, arg[c])
  /\ pc' = [pc EXCEPT ![c] = "hd_unmask"]
  /\ done' = NoCall
  /\ hist' = [hist EXCEPT ![c][arg[c]].sets = @ + 1]
  /\ UNCHANGED <<fm, om, mem, arg, calls, budget>>

\* Mutant of send_half_duplex_unmask: CHnOM is cleared instead of CHnFM.
send_half_duplex_unmask_occupied(c) ==
  /\ pc[c] = "hd_unmask"
  /\ om' = Unmask(om, c, arg[c])
  /\ pc' = [pc EXCEPT ![c] = "idle"]
  /\ arg' = [arg EXCEPT ![c] = 0]
  /\ Return(c, "send_half_duplex", arg[c], NoData, "free", "unit")
  /\ hist' = [hist EXCEPT ![c][arg[c]].phase = 1]
  /\ UNCHANGED <<sr, fm, mem, calls, budget>>

send_half_duplex_unmask(c) ==
  /\ pc[c] = "hd_unmask"
  /\ fm' = Unmask(fm, c, arg[c])
  /\ pc' = [pc EXCEPT ![c] = "idle"]
  /\ arg' = [arg EXCEPT ![c] = 0]
  /\ Return(c, "send_half_duplex", arg[c], NoData, "free", "unit")
  /\ hist' = [hist EXCEPT ![c][arg[c]].phase = 1]
  /\ UNCHANGED <<sr, om, mem, calls, budget>>

send_response_half_duplex_call(c, n) ==
  /\ CanCall(c)
  /\ pc' = [pc EXCEPT ![c] = "resp_wait"]
  /\ arg' = [arg EXCEPT ![c] = n]
  /\ done' = NoCall
  /\ Called
  /\ UNCHANGED <<sr, fm, om, mem, hist>>

\* Mutant of send_response_half_duplex_wait: the loop reads the flag after
\* masking, so an unmasked channel never reads occupied.
send_response_half_duplex_wait_masked(c) ==
  /\ pc[c] = "resp_wait"
  /\ pc' = [pc EXCEPT ![c] = IF channel_is_free(c, arg[c]) \/ ~fm[c][arg[c]]
                             THEN "resp_wait" ELSE "resp_clear"]
  /\ done' = IF channel_is_free(c, arg[c]) \/ ~fm[c][arg[c]] THEN done ELSE NoCall
  /\ UNCHANGED <<sr, fm, om, mem, arg, calls, budget, hist>>

send_response_half_duplex_wait(c) ==
  /\ pc[c] = "resp_wait"
  /\ pc' = [pc EXCEPT ![c] = IF channel_is_free(c, arg[c]) THEN "resp_wait" ELSE "resp_clear"]
  /\ done' = IF channel_is_free(c, arg[c]) THEN done ELSE NoCall
  /\ UNCHANGED <<sr, fm, om, mem, arg, calls, budget, hist>>

send_response_half_duplex_clear(c) ==
  /\ pc[c] = "resp_clear"
  /\ sr' = SetC(sr, c, arg[c])
  /\ pc' = [pc EXCEPT ![c] = "resp_unmask"]
  /\ done' = NoCall
  /\ hist' = NotifyFree(hist, sr, sr', arg[c])
  /\ UNCHANGED <<fm, om, mem, arg, calls, budget>>

\* Mutant of send_response_half_duplex_unmask: CHnFM is set (masked) instead
\* of cleared.
send_response_half_duplex_mask(c) ==
  /\ pc[c] = "resp_unmask"
  /\ fm' = [fm EXCEPT ![c][arg[c]] = TRUE]
  /\ pc' = [pc EXCEPT ![c] = "idle"]
  /\ arg' = [arg EXCEPT ![c] = 0]
  /\ Return(c, "send_response_half_duplex", arg[c], NoData, "occupied", "unit")
  /\ hist' = [hist EXCEPT ![c][arg[c]].resps = @ + 1,
                          ![Other(c)][arg[c]].phase = IF @ = 1 THEN 2 ELSE @]
  /\ UNCHANGED <<sr, om, mem, calls, budget>>

send_response_half_duplex_unmask(c) ==
  /\ pc[c] = "resp_unmask"
  /\ fm' = Unmask(fm, c, arg[c])
  /\ pc' = [pc EXCEPT ![c] = "idle"]
  /\ arg' = [arg EXCEPT ![c] = 0]
  /\ Return(c, "send_response_half_duplex", arg[c], NoData, "occupied", "unit")
  /\ hist' = [hist EXCEPT ![c][arg[c]].resps = @ + 1,
                          ![Other(c)][arg[c]].phase = IF @ = 1 THEN 2 ELSE @]
  /\ UNCHANGED <<sr, om, mem, calls, budget>>

receive_half_duplex(c, n) ==
  /\ CanCall(c)
  /\ Return(c, "receive_half_duplex", n, NoData, "na", "unit")
  /\ Called
  /\ UNCHANGED <<sr, fm, om, mem, pc, arg, hist>>

channel_is_free_call(c, n) ==
  /\ CanCall(c)
  /\ Return(c, "channel_is_free", n, NoData, Saw(c, n), BoolStr(channel_is_free(c, n)))
  /\ Called
  /\ UNCHANGED <<sr, fm, om, mem, pc, arg, hist>>

HalfDuplexStep(c) ==
  \/ \E n \in IpccChannel : send_half_duplex_call(c, n)
  \/ send_half_duplex_wait(c)
  \/ send_half_duplex_set(c)
  \/ send_half_duplex_unmask(c)
  \/ \E n \in IpccChannel : send_response_half_duplex_call(c, n)
  \/ send_response_half_duplex_wait(c)
  \/ send_response_half_duplex_clear(c)
  \/ send_response_half_duplex_unmask(c)

Step(c) ==
  \/ \E n \in IpccChannel, d \in Payloads : send_simplex(c, n, d)
  \/ \E n \in IpccChannel : receive_simplex(c, n)
  \/ HalfDuplexStep(c)
  \/ \E n \in IpccChannel : receive_half_duplex(c, n)
  \/ \E n \in IpccChannel : channel_is_free_call(c, n)

Next == \E c \in Core : Step(c)

Spec == Init /\ [][Next]_vars

\* The two cores running the half-duplex discipline only, one call longer.
HalfDuplexInit == Start(MaxHdCalls)

HalfDuplexNext == \E c \in Core : HalfDuplexStep(c)

HalfDuplexSpec == HalfDuplexInit /\ [][HalfDuplexNext]_vars

TypeOK ==
  /\ sr \in [Core -> [IpccChannel -> {Free, Occupied}]]
  /\ fm \in [Core -> [IpccChannel -> BOOLEAN]]
  /\ om \in [Core -> [IpccChannel -> BOOLEAN]]
  /\ mem \in [Core -> [IpccChannel -> Payloads \cup {NoData}]]
  /\ calls \in 0..budget

\* ================================================================ claims
\* The call that returns in this step.
Returns(c, op, n) == done' # NoCall /\ done'.core = c /\ done'.op = op /\ done'.ch = n

\* C1: whenever send_simplex is called for a channel whose Direction flag
\* reads Free, the payload is written and, when the call returns, the
\* Direction flag reads Occupied.
C1_SendOnFreePostsAndOccupies ==
  [][\A c \in Core, n \in IpccChannel :
       (Returns(c, "send_simplex", n) /\ sr[c][n] = Free)
         => (mem'[c][n] = done'.data /\ sr'[c][n] = Occupied)]_vars

\* C2: starting from a Free Direction, send(channel, P) followed by the
\* receiver's receive on the same channel returns exactly P and leaves the
\* Direction flag Free.
C2_SimplexRoundTrip ==
  [][\A c \in Core, n \in IpccChannel :
       (/\ done.op = "send_simplex" /\ done.core = c /\ done.ch = n
        /\ done.saw = "free"
        /\ Returns(Other(c), "receive_simplex", n))
         => (done'.ret = ToString(done.data) /\ sr'[c][n] = Free)]_vars

Moved(x) == pc'[x] # pc[x]

\* C5: a Direction flag goes Free to Occupied only by a step of the core that
\* owns the Direction as sender, and Occupied to Free only by a step of the
\* peer (receiver) core.
C5_SingleWriterPerTransition ==
  [][\A c \in Core, n \in IpccChannel :
       /\ (sr[c][n] = Free /\ sr'[c][n] = Occupied)
            => (Moved(c) /\ ~Moved(Other(c)))
       /\ (sr[c][n] = Occupied /\ sr'[c][n] = Free)
            => (Moved(Other(c)) /\ ~Moved(c))]_vars

\* A response has just returned on a channel whose peer Direction had been set
\* Occupied by its sender and is Free again: both transitions have happened.
C5_Witness ==
  /\ done.op = "send_response_half_duplex"
  /\ hist[Other(done.core)][done.ch].sets > 0
  /\ sr[Other(done.core)][done.ch] = Free

\* C6: set-occupied and set-free alternate on every Direction: no operation
\* sets a flag that is already Occupied or clears a flag that is already Free.
C6_StrictAlternation ==
  [][\A c \in Core :
       /\ (pc[c] = "hd_set" /\ pc'[c] = "hd_unmask")
            => sr[c][arg[c]] = Free
       /\ (pc[c] = "resp_clear" /\ pc'[c] = "resp_unmask")
            => sr[Other(c)][arg[c]] = Occupied]_vars

\* C7: send_half_duplex(core, channel) does not leave its wait loop while the
\* Direction reads Occupied; it sets the flag only from Free, before it
\* unmasks; on return the on-free mask of (core, channel) is unmasked.
C7_RequestSetsThenUnmasks ==
  [][\A c \in Core :
       /\ (pc[c] = "hd_wait" /\ sr[c][arg[c]] = Occupied) => pc'[c] = "hd_wait"
       /\ (pc[c] = "hd_set" /\ Moved(c))
            => (/\ sr[c][arg[c]] = Free /\ sr'[c][arg[c]] = Occupied
                /\ pc'[c] = "hd_unmask" /\ fm[c][arg[c]] = fm'[c][arg[c]])
       /\ \A n \in IpccChannel :
            Returns(c, "send_half_duplex", n)
              => (pc[c] = "hd_unmask" /\ arg[c] = n /\ fm'[c][n] = FALSE
                  /\ sr' = sr /\ om' = om)]_vars

\* A request has just returned that set its Direction Occupied for the second
\* time: it was called after an earlier request and the peer's clear.
C7_Witness ==
  /\ done.op = "send_half_duplex"
  /\ hist[done.core][done.ch].sets = 2
  /\ sr[done.core][done.ch] = Occupied
  /\ fm[done.core][done.ch] = FALSE

\* C8: send_response_half_duplex waits while the Direction reads Free; on
\* return the Direction is Free and the on-occupied mask is unmasked.
C8_ResponseFreesAndArms ==
  [][\A c \in Core :
       /\ (pc[c] = "resp_wait" /\ sr[c][arg[c]] = Free) => pc'[c] = "resp_wait"
       /\ \A n \in IpccChannel :
            Returns(c, "send_response_half_duplex", n)
              => (sr'[c][n] = Free /\ om'[c][n] = FALSE)]_vars

\* C9: once send_half_duplex(c, n) and then the peer's response on channel n
\* have both returned, a second send_half_duplex(c, n) finds the Direction
\* Free: it waits for no further step of the peer.
C9_NoResidualLockOut ==
  \A c \in Core, n \in IpccChannel :
    (pc[c] = "hd_wait" /\ arg[c] = n /\ hist[c][n].phase = 2) => sr[c][n] = Free

\* C10: a response started on a Free Direction stays in its wait loop; every
\* response that returns is preceded by a set-occupied of its Direction of
\* its own, and the Direction is Free right after the response.
C10_RequestPrecedesResponse ==
  [][\A c \in Core :
       /\ (pc[c] = "resp_wait" /\ sr[c][arg[c]] = Free) => pc'[c] = "resp_wait"
       /\ \A n \in IpccChannel :
            Returns(c, "send_response_half_duplex", n)
              => (/\ hist'[c][n].resps <= hist'[c][n].sets
                  /\ sr'[c][n] = Free)]_vars

\* Core c takes the step: it moves inside a blocking call, or it makes a
\* call that returns at once.
Acts(c) == Moved(c) \/ (calls' = calls + 1 /\ done'.core = c)

\* C11: a step of one core, whatever it unmasks, leaves every mask of the
\* other core, on every channel, unchanged.
C11_MaskIsolation ==
  [][\A c \in Core :
       Acts(c) => (fm'[Other(c)] = fm[Other(c)] /\ om'[Other(c)] = om[Other(c)])]_vars

\* A request has just returned with the caller's on-free mask unmasked while
\* the peer's masks of the same channel are still masked.
C11_Witness ==
  /\ done.op = "send_half_duplex"
  /\ fm[done.core][done.ch] = FALSE
  /\ fm[Other(done.core)][done.ch] = TRUE
  /\ om[Other(done.core)][done.ch] = TRUE

\* C12: channel_is_free(core, channel) returns true exactly when the flag of
\* Direction (core, channel) is Free, and changes no flag, mask or payload.
C12_IsFreePureRead ==
  [][\A c \in Core, n \in IpccChannel :
       Returns(c, "channel_is_free", n)
         => (/\ done'.ret = (IF sr[c][n] = Free THEN "true" ELSE "false")
             /\ sr' = sr /\ fm' = fm /\ om' = om /\ mem' = mem
             /\ pc' = pc)]_vars

\* channel_is_free has just answered false for a Direction that is Occupied
\* while the peer's Direction of the same channel is Free.
C12_Witness ==
  /\ done.op = "channel_is_free"
  /\ done.ret = "false"
  /\ sr[done.core][done.ch] = Occupied
  /\ sr[Other(done.core)][done.ch] = Free

C14_PrepareReceiveUnmasks ==
  [][\A c \in Core, n \in IpccChannel :
       Returns(c, "receive_simplex", n)
         => (om'[c][n] = FALSE /\ sr' = sr /\ mem' = mem)]_vars

\* C15: receive_half_duplex unmasks on-occupied or on-free for the channel
\* and never changes an occupancy flag.
C15_HalfDuplexReceiveSetsMasks ==
  [][\A c \in Core, n \in IpccChannel :
       Returns(c, "receive_half_duplex", n)
         => ((om'[c][n] = FALSE \/ fm'[c][n] = FALSE) /\ sr' = sr)]_vars

\* C16: whether a core can leave a wait loop, set a flag or clear a flag, and
\* the flags the step produces, are fixed by its position, its channel and
\* the flags alone: they are the same under every setting of the masks.
C16_MasksNeverGate ==
  \A c \in Core :
    /\ (ENABLED (send_half_duplex_wait(c) /\ pc'[c] = "hd_set"))
         <=> (pc[c] = "hd_wait" /\ sr[c][arg[c]] = Free)
    /\ (ENABLED send_half_duplex_set(c)) <=> (pc[c] = "hd_set")
    /\ (ENABLED (send_response_half_duplex_wait(c) /\ pc'[c] = "resp_clear"))
         <=> (pc[c] = "resp_wait" /\ sr[c][arg[c]] = Occupied)
    /\ (ENABLED send_response_half_duplex_clear(c)) <=> (pc[c] = "resp_clear")
    /\ ~ENABLED (/\ send_half_duplex_set(c)
                 /\ sr' # [sr EXCEPT ![c][arg[c]] = Occupied])
    /\ ~ENABLED (/\ send_response_half_duplex_clear(c)
                 /\ sr' # [sr EXCEPT ![Other(c)][arg[c]] = Free])
    /\ ~ENABLED (/\ Step(c)
                 /\ sr' # sr
                 /\ pc[c] \notin {"hd_set", "resp_clear"})

\* A response is about to clear a flag while its caller's on-free mask of the
\* channel is unmasked and the peer's is masked.
C16_Witness ==
  \E c \in Core :
    /\ pc[c] = "resp_clear"
    /\ fm[c][arg[c]] = FALSE
    /\ fm[Other(c)][arg[c]] = TRUE

\* The peer of core c takes the clear step of a response on c's channel.
PeerClears(c) ==
  /\ pc[Other(c)] = "resp_clear"
  /\ arg[Other(c)] = arg[c]
  /\ Moved(Other(c))

\* C17: a request waiting on an Occupied Direction stays in its loop, the
\* Direction stays Occupied and the caller's masks stay as they are, in every
\* step other than the peer's clear of that channel; a response waiting on a
\* Free Direction stays in its loop, with the Direction Free and the caller's
\* masks unchanged, in every step.
C17_WaitsAreUnbounded ==
  [][\A c \in Core :
       /\ (pc[c] = "hd_wait" /\ sr[c][arg[c]] = Occupied /\ ~PeerClears(c))
            => (/\ pc'[c] = "hd_wait" /\ arg'[c] = arg[c]
                /\ sr'[c][arg[c]] = Occupied
                /\ fm'[c] = fm[c] /\ om'[c] = om[c])
       /\ (pc[c] = "resp_wait" /\ sr[c][arg[c]] = Free)
            => (/\ pc'[c] = "resp_wait" /\ arg'[c] = arg[c]
                /\ sr'[c][arg[c]] = Free
                /\ fm'[c] = fm[c] /\ om'[c] = om[c])]_vars

\* Both cores are stuck: one request spins on an Occupied Direction and the
\* peer's response spins on a Free one; no step can change the state.
C17_Witness ==
  \E c \in Core :
    /\ pc[c] = "hd_wait" /\ sr[c][arg[c]] = Occupied
    /\ pc[Other(c)] = "resp_wait" /\ sr[Other(c)][arg[Other(c)]] = Free
    /\ arg[c] = arg[Other(c)]
    /\ ~ENABLED <<Next>>_vars

\* The flag of Direction (c, n) goes from Occupied to Free in this step.
Freed(c, n) == sr[c][n] = Occupied /\ sr'[c][n] = Free

\* C18 as stated: under every interleaving of the requester's set-occupied
\* and unmask steps with the responder's set-free step, the free of a
\* Direction a request has set Occupied raises an on-free notification to the
\* requesting core.
C18_NoLostWakeUp ==
  [][\A c \in Core, n \in IpccChannel :
       Freed(c, n) => hist'[c][n].irq = hist[c][n].irq + 1]_vars

\* C18 amended: a free that comes after the request has taken its unmask step
\* (the request has returned) raises the on-free notification.
C18_WakeUpAfterUnmask ==
  [][\A c \in Core, n \in IpccChannel :
       (Freed(c, n) /\ ~(pc[c] = "hd_unmask" /\ arg[c] = n))
         => hist'[c][n].irq = hist[c][n].irq + 1]_vars

\* A response has cleared the Direction of a request that had returned, and
\* the requester has been notified once.
C18_Witness ==
  \E c \in Core, n \in IpccChannel :
    /\ hist[c][n].irq = 1
    /\ hist[c][n].sets = 1
    /\ sr[c][n] = Free
    /\ fm[c][n] = FALSE
    /\ pc[Other(c)] = "resp_unmask" /\ arg[Other(c)] = n

\* The channel of the call core c is running or makes in this step.
Chan(c) ==
  IF pc[c] # "idle" THEN arg[c]
  ELSE IF pc'[c] # "idle" THEN arg'[c] ELSE done'.ch

\* C19: a step of a call on channel n changes no flag, mask or payload of any
\* other channel, and a call leaves its wait loop exactly when the flag of
\* its own channel allows it, whatever the other channels' flags are.
C19_ChannelIndependence ==
  [][\A c \in Core :
       /\ Acts(c)
            => \A x \in Core, m \in IpccChannel \ {Chan(c)} :
                 /\ sr'[x][m] = sr[x][m]
                 /\ fm'[x][m] = fm[x][m]
                 /\ om'[x][m] = om[x][m]
                 /\ mem'[x][m] = mem[x][m]
       /\ (pc[c] = "hd_wait" /\ Moved(c)) => sr[c][arg[c]] = Free
       /\ (pc[c] = "hd_wait" /\ sr[c][arg[c]] = Free)
            => ENABLED (send_half_duplex_wait(c) /\ pc'[c] = "hd_set")
       /\ (pc[c] = "resp_wait" /\ Moved(c)) => sr[c][arg[c]] = Occupied
       /\ (pc[c] = "resp_wait" /\ sr[c][arg[c]] = Occupied)
            => ENABLED (send_response_half_duplex_wait(c) /\ pc'[c] = "resp_clear")]_vars

\* A request has just returned on one channel: its Direction is Occupied and
\* unmasked while another channel of the same core is Free and masked.
C19_Witness ==
  /\ done.op = "send_half_duplex"
  /\ sr[done.core][done.ch] = Occupied
  /\ fm[done.core][done.ch] = FALSE
  /\ \E m \in IpccChannel \ {done.ch} :
       sr[done.core][m] = Free /\ fm[done.core][m] = TRUE

\* C20: the flag send_response_half_duplex(core, channel) polls is the flag
\* its clear step sets Free, and the flag send_half_duplex(core, channel)
\* sets Occupied: the response releases exactly the Direction (core, channel).
C20_SameFlagWaitedAndCleared ==
  [][\A c \in Core :
       /\ (pc[c] = "resp_wait" /\ Moved(c)) => sr[c][arg[c]] = Occupied
       /\ (pc[c] = "resp_clear" /\ Moved(c))
            => sr' = [sr EXCEPT ![c][arg[c]] = Free]
       /\ (pc[c] = "hd_set" /\ Moved(c))
            => sr' = [sr EXCEPT ![c][arg[c]] = Occupied]]_vars

====
